---- MODULE Spec2Model ----
(***************************************************************************)
(* Model of the ArtistDao server: the in-memory store (server/storage.ts)  *)
(* and the HTTP handlers that write to it (server/routes.ts).              *)
(*                                                                         *)
(* Conventions                                                             *)
(*  - every Map<number, X> of MemStorage is a function from ids to records *)
(*  - dates are whole days since the construction of the store (now)       *)
(*  - currency amounts are integers in tenths of the currency unit (the    *)
(*    seed revenue 10.2 is 102); the three split amounts are kept as exact *)
(*    rationals, scaled by 100 (see artistAmount)                          *)
(*  - res is the response of the last request: route, HTTP status, the     *)
(*    request it answers and the id of the created record (0 when nothing  *)
(*    was created)                                                         *)
(*  - served counts the requests and store calls handled so far            *)
(*  - registering is the queue of the POST /api/users handlers that are    *)
(*    suspended at `await storage.getUserByUsername(...)`: what each one   *)
(*    parsed and what the lookup found.  Every await of the server is on a *)
(*    promise MemStorage has already resolved, so a handler resumes in the *)
(*    same tick; what runs in between is the start of handlers queued for  *)
(*    that tick.  The registration is the handler in which a read of a map *)
(*    decides a write to the same map, and it is the one split at its      *)
(*    await; the other handlers are single steps.                          *)
(*  - form holds the three share fields of the artist registration form    *)
(*    of the client (pages/artist-registration.tsx), and bySlider tells    *)
(*    whether every change of the form so far had a value its slider can   *)
(*    give.  The form is a page of the browser: the server never reads it, *)
(*    and SpecForm is the state machine of the form alone.                 *)
(***************************************************************************)
EXTENDS Integers, Sequences, FiniteSets, TLC

VARIABLES users, artists, tokens, proposals, votes, revenues, earnings,
          currentIds, now, res, served, registering, form, bySlider

vars == <<users, artists, tokens, proposals, votes, revenues, earnings,
          currentIds, now, res, served, registering, form, bySlider>>

----------------------------------------------------------------------------
(* Bounds of the model *)

\* last day of a behaviour; the seeded proposal 1 ends on day 2
MaxNow == 2
\* requests and store calls in one behaviour
MaxRequests == 3

----------------------------------------------------------------------------
(* Inputs the requests are drawn from *)

NULL == "null"

\* users that send requests: 2 holds no token, 3 is the seeded fan
RequestUsers == {2, 3}
\* ids no create has assigned
UnknownIds == {9}
\* purchases <<artistId, userId, amount>>: of nothing, of the seeded holding
\* of artist 1 again, of all that is left of the supply of artist 1
\* (1000000 - 250), of an artist that may not exist yet, and of a negative
\* amount (insertTokenSchema takes any number)
PurchaseInputs ==
  {<<1, 2, 0>>, <<1, 3, 250>>, <<1, 2, 999750>>, <<3, 3, 250>>, <<1, 3, -250>>}
OptionIndexInputs == {-1, 0, 2}
\* weights the caller supplies with a vote
CallerWeights == {999}
\* artistShare, tokenHolderShare, treasuryShare of a new artist
ShareInputs == {<<60, 30, 10>>, <<50, 50, 50>>}
SupplyInputs == {1000}
RevenueAmounts == {1000}
StatusInputs == {"active", "closed", "cancelled"}
EarningTypes == {"artist", "treasury"}
SessionIds == {"cs_1"}
\* options and endDate of a new proposal: three options ending on day 5, a
\* single option, and a blank option with an endDate that is not in the future
ProposalInputs ==
  {<<<<"A", "B", "C">>, 5>>, <<<<"A">>, 5>>, <<<<"A", " ">>, 0>>}
\* webhook events <<event.type, metadata.artistId, metadata.tokenAmount>>:
\* a completed checkout of artist 1; the same without artistId, without
\* tokenAmount, for an artist that does not exist and for artist 3, which
\* POST /api/artists creates without contract address; another event type;
\* and a body that is not an event
WebhookInputs ==
  {<<"checkout.session.completed", 1, 250>>,
   <<"checkout.session.completed", 0, 250>>,
   <<"checkout.session.completed", 1, 0>>,
   <<"checkout.session.completed", 9, 250>>,
   <<"checkout.session.completed", 3, 250>>,
   <<"payment_intent.succeeded", 1, 250>>,
   <<"malformed", 1, 250>>}
\* the artist that gets a contract address after its creation (the first
\* one POST /api/artists creates), and the address
DeployedArtists == {3}
ContractAddresses == {"0x5FbD"}
\* calendar date <<year, month, day>> of the construction of the store
Epoch == <<2025, 3, 29>>
\* artists whose revenue summary is read (3 is unknown until it is created)
\* and users whose portfolio is read
SummaryArtists == {1, 3}
PortfolioUsers == {3}
\* values handleShareChange is called with, and the values each Slider of
\* the form can give (its min and max, with step 1)
ShareValues == 0..100
SliderValues ==
  [artistShare |-> 10..70, tokenHolderShare |-> 20..70, treasuryShare |-> 5..20]
\* usernames of the registrations: the seeded fan and a new name
UsernameInputs == {"fan_user", "new_user"}
\* what a request body carries for the fields the store assigns
CarriedFields ==
  [id |-> 77, createdAt |-> 99, purchaseDate |-> 99, startDate |-> 99,
   status |-> "closed", timestamp |-> 99, date |-> 99, distributed |-> TRUE]

----------------------------------------------------------------------------
(* Helpers *)

Put(m, k, v) == [x \in (DOMAIN m) \cup {k} |-> IF x = k THEN v ELSE m[x]]

RECURSIVE SumOver(_, _)
SumOver(S, f) ==
  IF S = {} THEN 0
  ELSE LET x == CHOOSE y \in S : TRUE IN f[x] + SumOver(S \ {x}, f)

Max(S) == CHOOSE x \in S : \A y \in S : y <= x

\* the object spread {...a, ...b}: the fields of b win
Spread_firstWins(a, b) ==
  [k \in (DOMAIN a) \cup (DOMAIN b) |-> IF k \in DOMAIN a THEN a[k] ELSE b[k]]

Spread(a, b) ==
  [k \in (DOMAIN a) \cup (DOMAIN b) |-> IF k \in DOMAIN b THEN b[k] ELSE a[k]]

(* Exact rationals <<n, d>> with d > 0, kept in lowest terms: the value of *)
(* a JavaScript double expression before its rounding.                     *)

Abs(x) == IF x < 0 THEN -x ELSE x

RECURSIVE GCD(_, _)
GCD(a, b) == IF b = 0 THEN a ELSE GCD(b, a % b)

Rat(n, d) ==
  LET g == GCD(Abs(n), d) IN IF n = 0 THEN <<0, 1>> ELSE <<n \div g, d \div g>>

RatMul(x, y) ==
  LET g1 == GCD(Abs(x[1]), y[2])
      g2 == GCD(Abs(y[1]), x[2])
  IN Rat((x[1] \div g1) * (y[1] \div g2), (x[2] \div g2) * (y[2] \div g1))

RatAdd(x, y) ==
  LET g == GCD(x[2], y[2])
  IN Rat(x[1] * (y[2] \div g) + y[1] * (x[2] \div g), (x[2] \div g) * y[2])

RatSub(x, y) == RatAdd(x, <<-y[1], y[2]>>)

RatLeq(x, y) == RatSub(x, y)[1] <= 0

RECURSIVE RatSum(_, _)
RatSum(S, f) ==
  IF S = {} THEN <<0, 1>>
  ELSE LET x == CHOOSE y \in S : TRUE IN RatAdd(f[x], RatSum(S \ {x}, f))

----------------------------------------------------------------------------
(* Values of JavaScript numbers that can be NaN *)

Num(v) == [kind |-> "num", v |-> v]
NaN == [kind |-> "nan", v |-> 0]

----------------------------------------------------------------------------
(* State after construction: the seed data of MemStorage.seedData, and the *)
(* defaultValues of the registration form                                  *)

defaultValues ==
  [artistShare |-> Num(50), tokenHolderShare |-> Num(40),
   treasuryShare |-> Num(10)]

SeedUsers ==
  [i \in 1..3 |->
     [id |-> i,
      username |-> <<"aurora_artist", "nebula_artist", "fan_user">>[i],
      isArtist |-> (i < 3),
      createdAt |-> 0]]

SeedArtists ==
  [i \in 1..2 |->
     [id |-> i, userId |-> i,
      tokenSupply |-> <<1000000, 2000000>>[i],
      artistShare |-> <<60, 55>>[i],
      tokenHolderShare |-> <<30, 35>>[i],
      treasuryShare |-> 10,
      contractAddress |-> <<"0xf39F", "0x7099">>[i]]]

SeedProposals ==
  [i \in 1..2 |->
     [id |-> i, artistId |-> i, creatorId |-> i,
      options |-> <<"A", "B">>,
      startDate |-> 0,
      endDate |-> <<2, 5>>[i],
      status |-> "active"]]

SeedRevenues ==
  [i \in 1..4 |->
     [id |-> i, artistId |-> 1,
      amount |-> <<102, 168, 221, 128>>[i],
      date |-> 0, distributed |-> FALSE]]

SeedTokens ==
  [i \in 1..2 |->
     [id |-> i, artistId |-> i, userId |-> 3,
      amount |-> <<250, 750>>[i],
      txHash |-> NULL, method |-> NULL, purchaseDate |-> 0]]

SeedVotes ==
  [i \in 1..2 |->
     [id |-> i, proposalId |-> i, userId |-> 3,
      optionIndex |-> i - 1,
      weight |-> <<250, 750>>[i],
      timestamp |-> 0]]

NoEarnings == [i \in {} |-> 0]

Response(route, status, created, req) ==
  [route |-> route, status |-> status, created |-> created, req |-> req]

Init ==
  /\ users = SeedUsers
  /\ artists = SeedArtists
  /\ tokens = SeedTokens
  /\ proposals = SeedProposals
  /\ votes = SeedVotes
  /\ revenues = SeedRevenues
  /\ earnings = NoEarnings
  /\ currentIds = [user |-> 4, artist |-> 3, token |-> 3, proposal |-> 3,
                   vote |-> 3, revenue |-> 5, earning |-> 1]
  /\ now = 0
  /\ registering = <<>>
  /\ form = defaultValues
  /\ bySlider = TRUE
  /\ res = [route |-> "none", status |-> 0, created |-> 0, req |-> <<>>]
  /\ served = 0

----------------------------------------------------------------------------
(* MemStorage: reads *)

\* Array.from(this.users.values()).find(...): the first user in insertion
\* order, which is the order of the ids; the result is the set of that one
\* user, and the empty set stands for undefined
getUserByUsername(username) ==
  LET found == {u \in DOMAIN users : users[u].username = username}
  IN {users[u] : u \in {v \in found : \A w \in found : v <= w}}

getUserTokens(userId) == {t \in DOMAIN tokens : tokens[t].userId = userId}

getArtistTokens(artistId) == {t \in DOMAIN tokens : tokens[t].artistId = artistId}

getProposalVotes(proposalId) ==
  {v \in DOMAIN votes : votes[v].proposalId = proposalId}

getArtistRevenues(artistId) ==
  {r \in DOMAIN revenues : revenues[r].artistId = artistId}

\* the filter of getActiveProposals: the only votability test of the code
isVotable_statusOnly(proposal) == proposal.status = "active"

isVotable(proposal) == proposal.status = "active" /\ proposal.endDate > now

getActiveProposals == {p \in DOMAIN proposals : isVotable(proposals[p])}

(* MemStorage: writes.  Each takes the insert record and stamps the        *)
(* store-assigned fields over it ({...x, id, ...}).                        *)

createUser_noIncrement(user) ==
  /\ users' = Put(users, currentIds.user,
                  Spread(user, [id |-> currentIds.user, createdAt |-> now]))
  /\ UNCHANGED currentIds

createUser(user) ==
  /\ users' = Put(users, currentIds.user,
                  Spread(user, [id |-> currentIds.user, createdAt |-> now]))
  /\ currentIds' = [currentIds EXCEPT !.user = @ + 1]

createArtist(artist) ==
  /\ artists' = Put(artists, currentIds.artist,
                    Spread(artist, [id |-> currentIds.artist]))
  /\ currentIds' = [currentIds EXCEPT !.artist = @ + 1]

updateArtistContractAddress(id, contractAddress) ==
  IF id \notin DOMAIN artists
  THEN UNCHANGED artists
  ELSE artists' = [artists EXCEPT ![id] =
                     Spread(@, [contractAddress |-> contractAddress])]

createToken(token) ==
  /\ tokens' = Put(tokens, currentIds.token,
                   Spread(token, [id |-> currentIds.token,
                                  purchaseDate |-> now]))
  /\ currentIds' = [currentIds EXCEPT !.token = @ + 1]

createProposal(proposal) ==
  /\ proposals' = Put(proposals, currentIds.proposal,
                      Spread(proposal, [id |-> currentIds.proposal,
                                        startDate |-> now,
                                        status |-> "active"]))
  /\ currentIds' = [currentIds EXCEPT !.proposal = @ + 1]

createVote_replace(vote) ==
  LET prior == {v \in DOMAIN votes :
                  /\ votes[v].proposalId = vote.proposalId
                  /\ votes[v].userId = vote.userId}
  IN /\ votes' = Put([v \in DOMAIN votes \ prior |-> votes[v]], currentIds.vote,
                     Spread(vote, [id |-> currentIds.vote, timestamp |-> now]))
     /\ currentIds' = [currentIds EXCEPT !.vote = @ + 1]

createVote(vote) ==
  /\ votes' = Put(votes, currentIds.vote,
                  Spread(vote, [id |-> currentIds.vote, timestamp |-> now]))
  /\ currentIds' = [currentIds EXCEPT !.vote = @ + 1]

updateProposalStatus(id, status) ==
  IF id \notin DOMAIN proposals
  THEN UNCHANGED proposals
  ELSE proposals' = [proposals EXCEPT ![id].status = status]

createRevenue(revenue) ==
  /\ revenues' = Put(revenues, currentIds.revenue,
                     Spread(revenue, [id |-> currentIds.revenue,
                                      date |-> now,
                                      distributed |-> FALSE]))
  /\ currentIds' = [currentIds EXCEPT !.revenue = @ + 1]

markRevenueDistributed_toggle(id) ==
  IF id \notin DOMAIN revenues
  THEN UNCHANGED revenues
  ELSE revenues' = [revenues EXCEPT ![id].distributed = ~@]

markRevenueDistributed(id) ==
  IF id \notin DOMAIN revenues
  THEN UNCHANGED revenues
  ELSE revenues' = [revenues EXCEPT ![id].distributed = TRUE]

createEarning(earning) ==
  /\ earnings' = Put(earnings, currentIds.earning,
                     Spread(earning, [id |-> currentIds.earning,
                                      date |-> now]))
  /\ currentIds' = [currentIds EXCEPT !.earning = @ + 1]

----------------------------------------------------------------------------
(* Vote tally of GET /api/proposals/active and GET /api/artists/:id/proposals *)
(*                                                                         *)
(* A JavaScript number of the tally is a cell: a finite number, NaN, or a  *)
(* hole of the array (an index never assigned, which reduce and map skip). *)

Hole == [kind |-> "hole", v |-> 0]

\* optionVotes after Array(options.length).fill(0) and the forEach: cell i+1
\* is optionVotes[i].  An index >= options.length reads undefined, and
\* undefined + weight is NaN; the assignment extends the array.  A negative
\* index sets a property that is not an element of the array.
optionVotes_currentHolding(proposalId) ==
  LET n == Len(proposals[proposalId].options)
      vs == getProposalVotes(proposalId)
      at(i) == {v \in vs : votes[v].optionIndex = i}
      len == Max({n} \cup {votes[v].optionIndex + 1 : v \in vs})
      rows(v) == {t \in getUserTokens(votes[v].userId) :
                    tokens[t].artistId = proposals[proposalId].artistId}
      weight == [v \in vs |->
                   SumOver(rows(v), [t \in rows(v) |-> tokens[t].amount])]
  IN [k \in 1..len |->
        IF k - 1 < n THEN Num(SumOver(at(k - 1), weight))
        ELSE IF at(k - 1) = {} THEN Hole
        ELSE NaN]

optionVotes(proposalId) ==
  LET n == Len(proposals[proposalId].options)
      vs == getProposalVotes(proposalId)
      at(i) == {v \in vs : votes[v].optionIndex = i}
      len == Max({n} \cup {votes[v].optionIndex + 1 : v \in vs})
      weight == [v \in vs |-> votes[v].weight]
  IN [k \in 1..len |->
        IF k - 1 < n THEN Num(SumOver(at(k - 1), weight))
        ELSE IF at(k - 1) = {} THEN Hole
        ELSE NaN]

\* optionVotes.reduce((a, b) => a + b, 0)
totalVotes(proposalId) ==
  LET ov == optionVotes(proposalId)
      elems == {k \in DOMAIN ov : ov[k].kind # "hole"}
      val == [k \in elems |-> ov[k].v]
  IN IF \E k \in elems : ov[k].kind = "nan" THEN NaN
     ELSE Num(SumOver(elems, val))

----------------------------------------------------------------------------
(* POST /api/proposals/:id/vote *)

\* a z.object of drizzle-zod keeps the columns of the schema and strips
\* every other key of the body
Strip(body, columns) == [k \in (DOMAIN body) \cap columns |-> body[k]]

\* insertVoteSchema.parse: userId, optionIndex and weight are required numbers
insertVoteSchemaAccepts(body) == body.hasWeight

insertVoteSchema(body) ==
  Strip(body, {"proposalId", "userId", "optionIndex", "weight"})

\* artistTokens.reduce((sum, token) => sum + token.amount, 0)
tokenAmount_callerWeight(artistTokens, voteData) == voteData.weight

tokenAmount(artistTokens, voteData) ==
  SumOver(artistTokens, [t \in artistTokens |-> tokens[t].amount])

\* one more request may be served; it is handled from start to end, while
\* no registration is suspended
Serve ==
  /\ served < MaxRequests
  /\ served' = served + 1
  /\ registering = <<>>
  /\ UNCHANGED <<registering, form, bySlider>>

CastVote(proposalId, body) ==
  LET req == [proposalId |-> proposalId, userId |-> body.userId,
              optionIndex |-> body.optionIndex, hasWeight |-> body.hasWeight]
      voteData == insertVoteSchema(Spread(Spread(CarriedFields, body),
                                          [proposalId |-> proposalId]))
      artistTokens ==
        {t \in getUserTokens(voteData.userId) :
           tokens[t].artistId = proposals[proposalId].artistId}
  IN
  /\ Serve
  /\ UNCHANGED <<users, artists, tokens, proposals, revenues, earnings, now>>
  /\ IF proposalId \notin DOMAIN proposals
     THEN /\ res' = Response("vote", 404, 0, req)
          /\ UNCHANGED <<votes, currentIds>>
     ELSE IF ~insertVoteSchemaAccepts(body)
     THEN /\ res' = Response("vote", 400, 0, req)
          /\ UNCHANGED <<votes, currentIds>>
     ELSE IF artistTokens = {}
     THEN /\ res' = Response("vote", 403, 0, req)
          /\ UNCHANGED <<votes, currentIds>>
     ELSE /\ createVote(Spread(voteData,
                                [weight |-> tokenAmount(artistTokens, voteData)]))
          /\ res' = Response("vote", 201, currentIds.vote, req)

\* Math.round of the rational x: the integer nearest to x, a half going up
MathRound(x) == (2 * x[1] + x[2]) \div (2 * x[2])

\* optionVotes.map(count => totalVotes > 0
\*   ? Math.round((count / totalVotes) * 100) : 0): map skips the holes, and
\* NaN > 0 is false
votePercentages(proposalId) ==
  LET ov == optionVotes(proposalId)
      total == totalVotes(proposalId)
  IN [k \in DOMAIN ov |->
        IF ov[k].kind = "hole" THEN Hole
        ELSE IF total.kind = "num" /\ total.v > 0
        THEN Num(MathRound(RatMul(Rat(ov[k].v, total.v), <<100, 1>>)))
        ELSE Num(0)]

----------------------------------------------------------------------------
(* GET /api/proposals/active *)

GetActiveProposals_closesExpired ==
  LET listed == getActiveProposals
      body == [p \in listed |->
                 Spread(proposals[p],
                        [votes |-> [counts |-> optionVotes(p),
                                    percentages |-> votePercentages(p),
                                    total |-> totalVotes(p)]])]
  IN /\ Serve
     /\ res' = Response("proposals/active", 200, 0, body)
     /\ proposals' = [p \in DOMAIN proposals |->
                        IF proposals[p].status = "active" /\ p \notin listed
                        THEN Spread(proposals[p], [status |-> "closed"])
                        ELSE proposals[p]]
     /\ UNCHANGED <<users, artists, tokens, votes, revenues,
                    earnings, currentIds, now>>

GetActiveProposals ==
  LET listed == getActiveProposals
      body == [p \in listed |->
                 Spread(proposals[p],
                        [votes |-> [counts |-> optionVotes(p),
                                    percentages |-> votePercentages(p),
                                    total |-> totalVotes(p)]])]
  IN /\ Serve
     /\ res' = Response("proposals/active", 200, 0, body)
     /\ UNCHANGED <<users, artists, tokens, proposals, votes, revenues,
                    earnings, currentIds, now>>

----------------------------------------------------------------------------
(* POST /api/proposals *)

insertProposalSchema(body) ==
  Strip(body, {"artistId", "creatorId", "options", "endDate"})

CreateProposal(artistId, creatorId, options, endDate) ==
  LET body == Spread(CarriedFields,
                     [artistId |-> artistId, creatorId |-> creatorId,
                      options |-> options, endDate |-> endDate])
      proposalData == insertProposalSchema(body)
  IN
  /\ Serve
  /\ createProposal(proposalData)
  /\ res' = Response("proposals", 201, currentIds.proposal,
                     [artistId |-> artistId])
  /\ UNCHANGED <<users, artists, tokens, votes, revenues, earnings, now>>

----------------------------------------------------------------------------
(* POST /api/tokens and the checkout.session.completed branch of          *)
(* POST /api/stripe-webhook                                                *)

insertTokenSchema(body) ==
  Strip(body, {"artistId", "userId", "amount", "txHash", "method"})

BuyTokens(artistId, userId, amount) ==
  /\ Serve
  /\ createToken(insertTokenSchema(
       Spread(CarriedFields,
              [artistId |-> artistId, userId |-> userId,
               amount |-> amount, txHash |-> NULL, method |-> NULL])))
  /\ res' = Response("tokens", 201, currentIds.token,
                     [artistId |-> artistId, userId |-> userId])
  /\ UNCHANGED <<users, artists, proposals, votes, revenues, earnings, now>>

StripeWebhook_noAddressCheck(type, sessionId, artistId, tokenAmountMeta, userId) ==
  LET req == [type |-> type, artistId |-> artistId, userId |-> userId,
              tokenAmount |-> tokenAmountMeta]
  IN
  /\ Serve
  /\ UNCHANGED <<users, artists, proposals, votes, revenues, earnings, now>>
  /\ IF type = "malformed"
     THEN /\ res' = Response("stripe-webhook", 400, 0, req)
          /\ UNCHANGED <<tokens, currentIds>>
     ELSE IF /\ type = "checkout.session.completed"
             /\ artistId # 0
             /\ tokenAmountMeta # 0
             /\ artistId \in DOMAIN artists
     THEN /\ createToken([artistId |-> artistId, userId |-> userId,
                          amount |-> tokenAmountMeta, txHash |-> sessionId,
                          method |-> "usd"])
          /\ res' = Response("stripe-webhook", 200, currentIds.token, req)
     ELSE /\ res' = Response("stripe-webhook", 200, 0, req)
          /\ UNCHANGED <<tokens, currentIds>>

\* the process runs with STRIPE_SECRET_KEY set (without it the handler
\* answers 500 before it reads the request).  type is event.type, or
\* "malformed" for a body that JSON.parse or constructEvent rejects; the
\* three numbers are the parseInt of the metadata, 0 for a missing one.
StripeWebhook(type, sessionId, artistId, tokenAmountMeta, userId) ==
  LET req == [type |-> type, artistId |-> artistId, userId |-> userId,
              tokenAmount |-> tokenAmountMeta]
  IN
  /\ Serve
  /\ UNCHANGED <<users, artists, proposals, votes, revenues, earnings, now>>
  /\ IF type = "malformed"
     THEN /\ res' = Response("stripe-webhook", 400, 0, req)
          /\ UNCHANGED <<tokens, currentIds>>
     ELSE IF /\ type = "checkout.session.completed"
             /\ artistId # 0
             /\ tokenAmountMeta # 0
             /\ artistId \in DOMAIN artists
             /\ artists[artistId].contractAddress \notin {NULL, ""}
     THEN /\ createToken([artistId |-> artistId, userId |-> userId,
                          amount |-> tokenAmountMeta, txHash |-> sessionId,
                          method |-> "usd"])
          /\ res' = Response("stripe-webhook", 200, currentIds.token, req)
     ELSE /\ res' = Response("stripe-webhook", 200, 0, req)
          /\ UNCHANGED <<tokens, currentIds>>

----------------------------------------------------------------------------
(* POST /api/users *)

insertUserSchema(body) == Strip(body, {"username", "isArtist"})

\* from the start of the handler to `await storage.getUserByUsername(...)`
RegisterUser(username) ==
  LET body == Spread(CarriedFields, [username |-> username, isArtist |-> FALSE])
      userData == insertUserSchema(body)
  IN /\ served < MaxRequests
     /\ served' = served + 1
     /\ registering' = Append(registering,
                              [userData |-> userData,
                               existingUser |-> getUserByUsername(userData.username)])
     /\ UNCHANGED <<users, artists, tokens, proposals, votes, revenues,
                    earnings, currentIds, now, res, form, bySlider>>

\* the rest of the handler, for the handler that was suspended first
ResumeRegisterUser ==
  /\ registering # <<>>
  /\ LET userData == Head(registering).userData
         existingUser == Head(registering).existingUser
         req == [username |-> userData.username]
     IN IF existingUser # {}
        THEN /\ res' = Response("users", 400, 0, req)
             /\ UNCHANGED <<users, currentIds>>
        ELSE /\ createUser(userData)
             /\ res' = Response("users", 201, currentIds.user, req)
  /\ registering' = Tail(registering)
  /\ UNCHANGED <<artists, tokens, proposals, votes, revenues, earnings, now,
                 served, form, bySlider>>

----------------------------------------------------------------------------
(* POST /api/artists *)

insertArtistSchema(body) ==
  Strip(body, {"userId", "tokenSupply", "artistShare", "tokenHolderShare",
               "treasuryShare", "contractAddress"})

CreateArtist(userId, supply, shares, contractAddress) ==
  /\ Serve
  /\ createArtist(insertArtistSchema(
       Spread(CarriedFields,
              [userId |-> userId, tokenSupply |-> supply,
               artistShare |-> shares[1],
               tokenHolderShare |-> shares[2],
               treasuryShare |-> shares[3],
               contractAddress |-> contractAddress])))
  /\ res' = Response("artists", 201, currentIds.artist, [userId |-> userId])
  /\ UNCHANGED <<users, tokens, proposals, votes, revenues, earnings, now>>

----------------------------------------------------------------------------
(* POST /api/revenues and the split of GET /api/artists/:id/revenue *)

insertRevenueSchema(body) == Strip(body, {"artistId", "amount"})

RecordRevenue(artistId, amount) ==
  /\ Serve
  /\ createRevenue(insertRevenueSchema(
       Spread(CarriedFields, [artistId |-> artistId, amount |-> amount])))
  /\ res' = Response("revenues", 201, currentIds.revenue,
                     [artistId |-> artistId])
  /\ UNCHANGED <<users, artists, tokens, proposals, votes, earnings, now>>

\* revenues.reduce((sum, revenue) => sum + revenue.amount, 0)
totalEarnings(artistId) ==
  LET rs == getArtistRevenues(artistId)
  IN SumOver(rs, [r \in rs |-> revenues[r].amount])

\* total * (artist.artistShare / 100), and the two other amounts
artistAmount_wholeUnits(total, artist) ==
  Rat((total * artist.artistShare) \div 100, 1)

artistAmount(total, artist) == RatMul(Rat(total, 1), Rat(artist.artistShare, 100))

tokenHolderAmount_artistShare(total, artist) ==
  RatMul(Rat(total, 1), Rat(artist.artistShare, 100))

tokenHolderAmount(total, artist) ==
  RatMul(Rat(total, 1), Rat(artist.tokenHolderShare, 100))

treasuryAmount(total, artist) ==
  RatMul(Rat(total, 1), Rat(artist.treasuryShare, 100))

(* The calendar of GET /api/artists/:id/revenue.  A date is a day number;  *)
(* its calendar date <<year, month, day>> is counted from Epoch, the date   *)
(* of the construction of the store.                                        *)

IsLeapYear(y) == (y % 4 = 0 /\ y % 100 # 0) \/ y % 400 = 0

DaysInMonth(y, m) ==
  IF m = 2 THEN (IF IsLeapYear(y) THEN 29 ELSE 28)
  ELSE IF m \in {4, 6, 9, 11} THEN 30
  ELSE 31

NextDay(d) ==
  IF d[3] < DaysInMonth(d[1], d[2]) THEN <<d[1], d[2], d[3] + 1>>
  ELSE IF d[2] < 12 THEN <<d[1], d[2] + 1, 1>>
  ELSE <<d[1] + 1, 1, 1>>

RECURSIVE DateOf(_)
DateOf(day) == IF day = 0 THEN Epoch ELSE NextDay(DateOf(day - 1))

\* toLocaleDateString('en-US', { month: 'short' }): the name of the month,
\* without the year; the model writes the number of the month for its name
MonthName(d) == d[2]

\* lastMonth.setMonth(lastMonth.getMonth() - 1): the same day of the month
\* before, and a day the month before does not have runs over into the
\* month after it
SetMonthBack(d) ==
  LET y == IF d[2] = 1 THEN d[1] - 1 ELSE d[1]
      m == IF d[2] = 1 THEN 12 ELSE d[2] - 1
  IN IF d[3] <= DaysInMonth(y, m) THEN <<y, m, d[3]>>
     ELSE NextDay(<<y, m, DaysInMonth(y, m)>>)

\* revenues.reduce(...) into acc[month]
monthlyRevenues(artistId) ==
  LET rs == getArtistRevenues(artistId)
      months == {MonthName(DateOf(revenues[r].date)) : r \in rs}
      of(m) == {r \in rs : MonthName(DateOf(revenues[r].date)) = m}
  IN [m \in months |-> SumOver(of(m), [r \in of(m) |-> revenues[r].amount])]

\* monthlyRevenues[lastMonthStr] || 0
lastMonthEarnings(artistId) ==
  LET lastMonthStr == MonthName(SetMonthBack(DateOf(now)))
      monthly == monthlyRevenues(artistId)
  IN IF lastMonthStr \in DOMAIN monthly THEN monthly[lastMonthStr] ELSE 0

GetArtistRevenue(artistId) ==
  /\ Serve
  /\ UNCHANGED <<users, artists, tokens, proposals, votes, revenues,
                 earnings, currentIds, now>>
  /\ IF artistId \notin DOMAIN artists
     THEN res' = Response("artists/revenue", 404, 0, [artistId |-> artistId])
     ELSE LET artist == artists[artistId]
              total == totalEarnings(artistId)
          IN res' = Response("artists/revenue", 200, 0,
               [artistId |-> artistId,
                totalEarnings |-> total,
                lastMonthEarnings |-> lastMonthEarnings(artistId),
                monthlyData |-> monthlyRevenues(artistId),
                distribution |->
                  [artist |-> [percentage |-> artist.artistShare,
                               amount |-> artistAmount(total, artist)],
                   tokenHolders |-> [percentage |-> artist.tokenHolderShare,
                                     amount |-> tokenHolderAmount(total, artist)],
                   treasury |-> [percentage |-> artist.treasuryShare,
                                 amount |-> treasuryAmount(total, artist)]]])

----------------------------------------------------------------------------
(* GET /api/users/:id/portfolio: the holdings of the response.  The mock   *)
(* value and the random dailyChange of each row are not part of the model. *)

GetPortfolio(userId) ==
  /\ Serve
  /\ UNCHANGED <<users, artists, tokens, proposals, votes, revenues,
                 earnings, currentIds, now>>
  /\ IF userId \notin DOMAIN users
     THEN res' = Response("users/portfolio", 404, 0, [userId |-> userId])
     ELSE res' = Response("users/portfolio", 200, 0,
            [userId |-> userId,
             tokens |-> {[tokenId |-> tokens[t].id,
                          artistId |-> tokens[t].artistId,
                          amount |-> tokens[t].amount] : t \in getUserTokens(userId)}])

----------------------------------------------------------------------------
(* Store operations no route calls: they are reached through IStorage *)

UpdateProposalStatus(id, status) ==
  /\ Serve
  /\ updateProposalStatus(id, status)
  /\ res' = Response("storage.updateProposalStatus", 0, 0, [id |-> id])
  /\ UNCHANGED <<users, artists, tokens, votes, revenues, earnings,
                 currentIds, now>>

UpdateArtistContractAddress(id, contractAddress) ==
  /\ Serve
  /\ updateArtistContractAddress(id, contractAddress)
  /\ res' = Response("storage.updateArtistContractAddress", 0, 0, [id |-> id])
  /\ UNCHANGED <<users, tokens, proposals, votes, revenues, earnings,
                 currentIds, now>>

MarkRevenueDistributed(id) ==
  /\ Serve
  /\ markRevenueDistributed(id)
  /\ res' = Response("storage.markRevenueDistributed", 0, 0, [id |-> id])
  /\ UNCHANGED <<users, artists, tokens, proposals, votes, earnings,
                 currentIds, now>>

CreateEarning(revenueId, type, amount) ==
  /\ Serve
  /\ createEarning([id |-> CarriedFields.id, date |-> CarriedFields.date,
                    revenueId |-> revenueId,
                    userId |-> NULL,
                    artistId |-> IF type = "artist" THEN "1" ELSE NULL,
                    treasuryId |-> IF type = "treasury" THEN "1" ELSE NULL,
                    amount |-> amount, type |-> type])
  /\ res' = Response("storage.createEarning", 0, currentIds.earning,
                     [revenueId |-> revenueId])
  /\ UNCHANGED <<users, artists, tokens, proposals, votes, revenues, now>>

----------------------------------------------------------------------------
(* The clock: new Date() advances between requests.  The only dates the   *)
(* code compares with the clock are the endDates, so the clock moves from  *)
(* one endDate to a later one.                                             *)

Tick ==
  /\ \E p \in DOMAIN proposals :
       /\ now < proposals[p].endDate
       /\ proposals[p].endDate <= MaxNow
       /\ now' = proposals[p].endDate
  /\ registering = <<>>
  /\ UNCHANGED <<users, artists, tokens, proposals, votes, revenues,
                 earnings, currentIds, res, served, registering, form,
                 bySlider>>

----------------------------------------------------------------------------
(* The share sliders of the artist registration form (client) *)

\* Math.round(remaining * ratio) for the exact product x.  The code computes
\* it in doubles: when x is exactly a half, the double is the half or just
\* below it, and both roundings are outcomes.
RoundedProduct(x) ==
  IF x[2] = 2 THEN {MathRound(x) - 1, MathRound(x)} ELSE {MathRound(x)}

\* the two setValue of a branch: <<Math.round(remaining * ratio),
\* total - value - Math.round(remaining * ratio)>> with
\* ratio = first / (first + second).  A NaN field gives NaN, and so does
\* 0 / (0 + 0); no field is negative, so first + second = 0 is that case.
adjustShares_truncates(value, first, second) ==
  IF first.kind = "nan" \/ second.kind = "nan" \/ first.v + second.v = 0
  THEN {<<NaN, NaN>>}
  ELSE LET x == RatMul(<<100 - value, 1>>, Rat(first.v, first.v + second.v))
           y == RatSub(<<100 - value, 1>>, x)
       IN {<<Num(x[1] \div x[2]), Num(y[1] \div y[2])>>}

adjustShares(value, first, second) ==
  IF first.kind = "nan" \/ second.kind = "nan" \/ first.v + second.v = 0
  THEN {<<NaN, NaN>>}
  ELSE LET x == RatMul(<<100 - value, 1>>, Rat(first.v, first.v + second.v))
       IN {<<Num(r), Num(100 - value - r)>> : r \in RoundedProduct(x)}

handleShareChange(field, value) ==
  LET currentValues == form
      set(first, second) ==
        \E adjusted \in adjustShares(value, currentValues[first],
                                      currentValues[second]) :
          form' = [k \in DOMAIN form |->
                     IF k = field THEN Num(value)
                     ELSE IF k = first THEN adjusted[1]
                     ELSE adjusted[2]]
  IN /\ IF field = "artistShare"
        THEN set("tokenHolderShare", "treasuryShare")
        ELSE IF field = "tokenHolderShare"
        THEN set("artistShare", "treasuryShare")
        ELSE set("artistShare", "tokenHolderShare")
     /\ bySlider' = (bySlider /\ value \in SliderValues[field])
     /\ UNCHANGED <<users, artists, tokens, proposals, votes, revenues,
                    earnings, currentIds, now, res, served, registering>>

NextForm ==
  \E field \in DOMAIN defaultValues, value \in ShareValues :
    handleShareChange(field, value)

SpecForm == Init /\ [][NextForm]_vars

----------------------------------------------------------------------------
(* The requests of the model *)

\* a body without weight fails insertVoteSchema whatever the rest is
VoteBodies ==
  {b \in [userId : RequestUsers, optionIndex : OptionIndexInputs,
          hasWeight : BOOLEAN, weight : CallerWeights] :
     ~b.hasWeight => (b.userId = 3 /\ b.optionIndex = 0)}

RevenueArtists == {1, 3} \cap DOMAIN artists

Next ==
  \/ \E p \in DOMAIN proposals, b \in VoteBodies : CastVote(p, b)
  \/ \E p \in UnknownIds, b \in VoteBodies :
       b.userId = 3 /\ b.optionIndex = 0 /\ b.hasWeight /\ CastVote(p, b)
  \/ \E t \in PurchaseInputs : BuyTokens(t[1], t[2], t[3])
  \/ \E n \in UsernameInputs : RegisterUser(n)
  \/ ResumeRegisterUser
  \/ GetActiveProposals
  \/ \E a \in SummaryArtists : GetArtistRevenue(a)
  \/ \E u \in PortfolioUsers : GetPortfolio(u)
  \/ \E i \in ProposalInputs : CreateProposal(1, 1, i[1], i[2])
  \/ \E s \in SessionIds, e \in WebhookInputs :
       StripeWebhook(e[1], s, e[2], e[3], 3)
  \/ \E n \in SupplyInputs, sh \in ShareInputs : CreateArtist(3, n, sh, NULL)
  \/ \E a \in RevenueArtists, n \in RevenueAmounts : RecordRevenue(a, n)
  \/ \E st \in StatusInputs : UpdateProposalStatus(1, st)
  \/ \E p \in UnknownIds : UpdateProposalStatus(p, "closed")
  \/ \E a \in DeployedArtists, c \in ContractAddresses :
       UpdateArtistContractAddress(a, c)
  \/ \E r \in {1, 5} \cup UnknownIds : MarkRevenueDistributed(r)
  \/ \E ty \in EarningTypes : CreateEarning(1, ty, 1)
  \/ Tick

Spec == Init /\ [][Next]_vars

----------------------------------------------------------------------------
(* Properties *)

\* sum of amount over all holding rows of the pair (artist, user)
HoldingSum(artistId, userId) ==
  LET rows == {t \in DOMAIN tokens :
                 tokens[t].artistId = artistId /\ tokens[t].userId = userId}
  IN SumOver(rows, [t \in rows |-> tokens[t].amount])

\* votes stored by the step
NewVotes == DOMAIN votes' \ DOMAIN votes

\* the last request was a vote on a stored proposal
VoteServed == res.route = "vote" /\ res.req.proposalId \in DOMAIN proposals

(* C1: for every proposal, the per-option weights of the tally sum to the  *)
(* total, and the total is the sum of weight over all stored votes of the  *)
(* proposal.                                                               *)
C1_TallyConservation ==
  \A p \in DOMAIN proposals :
    LET ov == optionVotes(p)
        counted == {k \in DOMAIN ov : ov[k].kind = "num"}
        vs == getProposalVotes(p)
    IN /\ totalVotes(p) = Num(SumOver(counted, [k \in counted |-> ov[k].v]))
       /\ totalVotes(p) = Num(SumOver(vs, [v \in vs |-> votes[v].weight]))

(* C2: a vote stored by the vote route has as weight the sum of all holding *)
(* rows of its voter for the artist of the proposal, at the time of the     *)
(* cast; the weight of the request body is not used.                        *)
C2_WeightIsHolding ==
  [][\A v \in NewVotes :
       votes'[v].weight =
         HoldingSum(proposals[votes'[v].proposalId].artistId, votes'[v].userId)]_vars

\* a vote was just stored for a voter with two holding rows for the artist,
\* whose sum differs from the weight the request carried
C2_Witness ==
  /\ VoteServed
  /\ res.status = 201
  /\ LET v == votes[res.created]
         a == proposals[v.proposalId].artistId
     IN /\ Cardinality({t \in getUserTokens(v.userId) : tokens[t].artistId = a}) = 2
        /\ v.weight = 500
        /\ v.weight \notin CallerWeights

(* C3: a vote request of a user whose total holding for the artist of the  *)
(* proposal is not positive is answered 403 and stores nothing; every      *)
(* stored vote has a weight > 0.                                           *)
C3_ZeroHoldingUnauthorized ==
  /\ \A v \in DOMAIN votes : votes[v].weight > 0
  /\ (/\ VoteServed
      /\ HoldingSum(proposals[res.req.proposalId].artistId, res.req.userId) <= 0)
     => (res.status = 403 /\ res.created = 0)

(* C4: no vote is stored for a proposal that is not votable at the time of *)
(* the cast (status not active, or endDate passed).                        *)
C4_NotVotableRejected ==
  [][\A v \in NewVotes : isVotable(proposals[votes'[v].proposalId])]_vars

(* C5: every stored vote has 0 <= optionIndex < number of options of its   *)
(* proposal.                                                               *)
C5_OptionIndexInRange ==
  \A v \in DOMAIN votes :
    /\ votes[v].optionIndex >= 0
    /\ votes[v].optionIndex < Len(proposals[votes[v].proposalId].options)

\* earnings rows of a revenue event
EarningsOf(es, revenueId) == {e \in DOMAIN es : es[e].revenueId = revenueId}

(* C6: once a revenue event is distributed, no further earning is created  *)
(* for it.                                                                 *)
C6_DistributeAtMostOnce ==
  [][\A r \in DOMAIN revenues :
       revenues[r].distributed => EarningsOf(earnings', r) = EarningsOf(earnings, r)]_vars

(* C7: a revenue event is created with distributed = FALSE, and a          *)
(* distributed event stays distributed.                                    *)
C7_DistributedNeverReset ==
  [][/\ \A r \in DOMAIN revenues' \ DOMAIN revenues : ~revenues'[r].distributed
     /\ \A r \in DOMAIN revenues :
          /\ r \in DOMAIN revenues'
          /\ revenues[r].distributed => revenues'[r].distributed]_vars

\* event 1 was marked distributed twice
C7_Witness ==
  /\ revenues[1].distributed
  /\ served >= 2
  /\ res.route = "storage.markRevenueDistributed"
  /\ res.req.id = 1
  /\ Cardinality({r \in DOMAIN revenues : revenues[r].distributed}) = 1

\* users with a holding row for the artist
Holders(artistId) == {tokens[t].userId : t \in getArtistTokens(artistId)}

\* tokenHolderPool * holderTotal / tokenSupply
HolderEarning(pool, holderTotal, tokenSupply) ==
  RatMul(pool, Rat(holderTotal, tokenSupply))

\* artist earning + treasury earning + sum of the holder earnings of an event
Distributed(r) ==
  LET a == artists[revenues[r].artistId]
      amount == revenues[r].amount
      hs == Holders(a.id)
      pool == tokenHolderAmount(amount, a)
  IN RatAdd(RatAdd(artistAmount(amount, a), treasuryAmount(amount, a)),
            RatSum(hs, [u \in hs |->
                          HolderEarning(pool, HoldingSum(a.id, u), a.tokenSupply)]))

DistributedEvents ==
  {r \in DOMAIN revenues :
     revenues[r].distributed /\ revenues[r].artistId \in DOMAIN artists}

\* one unit per earning row
Tolerance(r) == <<Cardinality(Holders(revenues[r].artistId)) + 2, 1>>

Held(artistId) ==
  LET rows == getArtistTokens(artistId)
  IN SumOver(rows, [t \in rows |-> tokens[t].amount])

SharesSum(artist) ==
  artist.artistShare + artist.tokenHolderShare + artist.treasuryShare

C9_TerminalStatus ==
  [][\A p \in DOMAIN proposals :
       proposals[p].status \in {"closed", "cancelled"}
         => proposals'[p] = proposals[p]]_vars

(* C10: the shares of every stored artist sum to 100.                      *)
C10_SharesSumTo100 == \A a \in DOMAIN artists : SharesSum(artists[a]) = 100

(* C11: the total holding of a pair (artist, user) is the sum of amount    *)
(* over its holding rows, 0 without rows, and no step decreases it.        *)
C11_HoldingNeverDecreases ==
  [][\A a \in DOMAIN artists, u \in DOMAIN users :
       /\ getArtistTokens(a) \cap getUserTokens(u) = {} => HoldingSum(a, u) = 0
       /\ HoldingSum(a, u)' >= HoldingSum(a, u)]_vars

BlankOptions == {"", " "}

(* C12: every stored proposal has at least 2 options, none of them empty   *)
(* or whitespace, and an endDate strictly after its startDate; a proposal  *)
(* is stored with status active.                                           *)
C12_ProposalValidated ==
  [][\A p \in DOMAIN proposals' :
       /\ Len(proposals'[p].options) >= 2
       /\ \A k \in DOMAIN proposals'[p].options :
            proposals'[p].options[k] \notin BlankOptions
       /\ proposals'[p].endDate > proposals'[p].startDate
       /\ p \notin DOMAIN proposals => proposals'[p].status = "active"]_vars

(* C13: no state has earning rows for a revenue event whose distributed    *)
(* flag is false.                                                          *)
C13_EarningsImplyDistributed ==
  \A e \in DOMAIN earnings :
    earnings[e].revenueId \in DOMAIN revenues
      => revenues[earnings[e].revenueId].distributed

(* C14: a token purchase leaves every stored vote, its weight included,    *)
(* and the tally of every proposal unchanged.                              *)
C14_WeightFixedAtCast ==
  [][tokens' # tokens =>
       /\ \A v \in DOMAIN votes :
            v \in DOMAIN votes' /\ votes'[v].weight = votes[v].weight
       /\ \A p \in DOMAIN proposals : optionVotes(p)' = optionVotes(p)]_vars

\* user 3 bought tokens of artist 1 after casting a vote on proposal 1
\* through the route: the holding exceeds the weight the vote keeps, and
\* option 0 counts the seeded vote and this one at their stored weights
C14_Witness ==
  /\ res.route = "tokens"
  /\ res.req = [artistId |-> 1, userId |-> 3]
  /\ \E v \in DOMAIN votes :
       /\ v >= 3
       /\ votes[v].proposalId = 1
       /\ votes[v].userId = 3
       /\ votes[v].optionIndex = 0
       /\ votes[v].weight = 250
       /\ HoldingSum(1, 3) = 500
       /\ optionVotes(1)[1] = Num(votes[1].weight + votes[v].weight)

\* the step answers a vote request on proposal p with 201
CastSucceeds(p) ==
  /\ res'.route = "vote"
  /\ res'.status = 201
  /\ res'.created = currentIds.vote
  /\ res'.req.proposalId = p

(* C15: every step keeps all stored votes as they are, and the number of   *)
(* votes of a proposal grows by one in a step that answers a vote request  *)
(* on it with 201, whoever the voter, and by nothing in any other step.    *)
C15_RevoteAdditive ==
  [][/\ \A v \in DOMAIN votes : v \in DOMAIN votes' /\ votes'[v] = votes[v]
     /\ \A p \in DOMAIN proposals :
          Cardinality(getProposalVotes(p)') =
            Cardinality(getProposalVotes(p)) + (IF CastSucceeds(p) THEN 1 ELSE 0)]_vars

\* user 3 has cast twice on proposal 1 through the route, on top of the
\* seeded vote: three rows of the same user on the same proposal
C15_Witness ==
  /\ VoteServed
  /\ res.status = 201
  /\ res.req.proposalId = 1
  /\ Cardinality({v \in getProposalVotes(1) : votes[v].userId = 3}) = 3

(* C20: no two stored users have the same username, and a registration     *)
(* answered 400 stores nothing.                                            *)
C20_UsernamesUnique ==
  [][/\ \A u, w \in DOMAIN users' :
          users'[u].username = users'[w].username => u = w
     /\ (res'.route = "users" /\ res'.status = 400) => users' = users]_vars

\* what a step may do to the map old of an entity type, whose counter is c:
\* leave it and the counter as they are, or give new, in which every record
\* is stored under its own id, a created record has the id c, greater than
\* every id of the map, the counter moves by the number of created records,
\* and a create keeps every record stored before
IdsKept(old, new, c, c2) ==
  IF new = old THEN c2 = c
  ELSE LET created == DOMAIN new \ DOMAIN old
       IN /\ DOMAIN old \subseteq DOMAIN new
          /\ \A k \in DOMAIN new : new[k].id = k
          /\ created \subseteq {c}
          /\ \A k \in created : \A j \in DOMAIN old : k > old[j].id
          /\ c2 = c + Cardinality(created)
          /\ created # {} => \A k \in DOMAIN old : new[k] = old[k]

(* C16: in every step and for every entity type, a record is stored under  *)
(* its own id; a new record gets the value of the counter of its type,     *)
(* which is greater than every id of the type assigned before; the counter *)
(* of a type moves by the number of records created in this type and by    *)
(* nothing else; and a create keeps every record stored before.            *)
C16_IdsUniqueIncreasing ==
  [][/\ IdsKept(users, users', currentIds.user, currentIds'.user)
     /\ IdsKept(artists, artists', currentIds.artist, currentIds'.artist)
     /\ IdsKept(tokens, tokens', currentIds.token, currentIds'.token)
     /\ IdsKept(proposals, proposals', currentIds.proposal, currentIds'.proposal)
     /\ IdsKept(votes, votes', currentIds.vote, currentIds'.vote)
     /\ IdsKept(revenues, revenues', currentIds.revenue, currentIds'.revenue)
     /\ IdsKept(earnings, earnings', currentIds.earning, currentIds'.earning)]_vars

\* two users and one vote were created after the seeds: the user counter
\* moved twice, the vote counter once, the token counter not at all
C16_Witness ==
  /\ {4, 5} \subseteq DOMAIN users
  /\ 3 \in DOMAIN votes
  /\ currentIds.user = 6
  /\ currentIds.vote = 4
  /\ currentIds.token = 3
  /\ DOMAIN tokens = {1, 2}

\* the records of the map new that the map old does not hold
CreatedIn(old, new) == IF new = old THEN {} ELSE DOMAIN new \ DOMAIN old

(* C17: every record a step stores carries the values of the store in its  *)
(* store-assigned fields: the id is the counter of its type, the dates are *)
(* the clock, the status of a proposal is active and the distributed flag  *)
(* of a revenue is false, whatever the request carried for these fields.   *)
C17_StoreAssignedFields ==
  [][/\ \A k \in CreatedIn(users, users') :
          users'[k].id = currentIds.user /\ users'[k].createdAt = now
     /\ \A k \in CreatedIn(artists, artists') :
          artists'[k].id = currentIds.artist
     /\ \A k \in CreatedIn(tokens, tokens') :
          tokens'[k].id = currentIds.token /\ tokens'[k].purchaseDate = now
     /\ \A k \in CreatedIn(proposals, proposals') :
          /\ proposals'[k].id = currentIds.proposal
          /\ proposals'[k].startDate = now
          /\ proposals'[k].status = "active"
     /\ \A k \in CreatedIn(votes, votes') :
          votes'[k].id = currentIds.vote /\ votes'[k].timestamp = now
     /\ \A k \in CreatedIn(revenues, revenues') :
          /\ revenues'[k].id = currentIds.revenue
          /\ revenues'[k].date = now
          /\ ~revenues'[k].distributed
     /\ \A k \in CreatedIn(earnings, earnings') :
          earnings'[k].id = currentIds.earning /\ earnings'[k].date = now]_vars

\* a proposal, a revenue and an earning were stored on requests that carried
\* other values for the store-assigned fields
C17_Witness ==
  /\ DOMAIN proposals # DOMAIN SeedProposals
  /\ DOMAIN revenues # DOMAIN SeedRevenues
  /\ earnings # NoEarnings
  /\ \A p \in DOMAIN proposals \ DOMAIN SeedProposals :
       /\ proposals[p].id # CarriedFields.id
       /\ proposals[p].startDate # CarriedFields.startDate
       /\ proposals[p].status # CarriedFields.status
  /\ \A r \in DOMAIN revenues \ DOMAIN SeedRevenues :
       revenues[r].distributed # CarriedFields.distributed
  /\ \A e \in DOMAIN earnings : earnings[e].date # CarriedFields.date

\* the step answers GET /api/proposals/active: it serves a request from
\* start to end and the response is a listing
ListingServed ==
  /\ res'.route = "proposals/active"
  /\ served' # served
  /\ registering' = registering

(* C18: the listing of active proposals holds exactly the stored proposals *)
(* whose status is active and whose endDate is after the clock.            *)
C18_ActiveListing ==
  [][ListingServed =>
       \A p \in DOMAIN proposals :
         p \in DOMAIN res'.req
           <=> (proposals[p].status = "active" /\ now < proposals[p].endDate)]_vars

\* after the end of proposal 1 the listing holds proposal 2 and not
\* proposal 1, whose stored status is still active
C18_Witness ==
  /\ res.route = "proposals/active"
  /\ proposals[1].status = "active"
  /\ proposals[1].endDate <= now
  /\ 1 \notin DOMAIN res.req
  /\ 2 \in DOMAIN res.req

\* weight of option i (from 0) of proposal p, and weight of all its votes
PerOptionWeight(p, i) ==
  LET vs == {v \in getProposalVotes(p) : votes[v].optionIndex = i}
  IN SumOver(vs, [v \in vs |-> votes[v].weight])

TotalWeight(p) ==
  LET vs == getProposalVotes(p)
  IN SumOver(vs, [v \in vs |-> votes[v].weight])

(* C19: in the listing, the percentage of option i of a proposal is        *)
(* round(100 * perOptionWeight[i] / totalWeight) when totalWeight > 0, and *)
(* 0 for every option when it is not; it is a number in both cases.        *)
C19_Percentages ==
  [][ListingServed =>
       \A p \in DOMAIN res'.req :
         \A i \in DOMAIN proposals[p].options :
           res'.req[p].votes.percentages[i] =
             Num(IF TotalWeight(p) > 0
                 THEN MathRound(Rat(100 * PerOptionWeight(p, i - 1), TotalWeight(p)))
                 ELSE 0)]_vars

(* C21: no two stored artists have the same userId.                        *)
C21_OneArtistPerUser ==
  \A a, b \in DOMAIN artists : artists[a].userId = artists[b].userId => a = b

\* holding rows recorded for the checkout session s
SessionRows(s) == {t \in DOMAIN tokens : tokens[t].txHash = s}

(* C22: however often the webhook of one completed checkout session is    *)
(* processed, the store holds at most one holding row with the session id  *)
(* as txHash, and exactly one once it was processed.                       *)
C22_WebhookIdempotent ==
  \A s \in SessionIds :
    /\ Cardinality(SessionRows(s)) <= 1
    /\ (res.route = "stripe-webhook" /\ res.created # 0)
         => Cardinality(SessionRows(s)) = 1

\* the step answers POST /api/stripe-webhook
WebhookServed ==
  /\ res'.route = "stripe-webhook"
  /\ served' # served
  /\ registering' = registering

\* the event of the request is a completed checkout with non-zero artistId
\* and tokenAmount, whose artist exists and has a contract address
Recordable(req) ==
  /\ req.type = "checkout.session.completed"
  /\ req.artistId # 0
  /\ req.tokenAmount # 0
  /\ req.artistId \in DOMAIN artists
  /\ artists[req.artistId].contractAddress \notin {NULL, ""}

\* holding rows stored by the step
NewTokens == DOMAIN tokens' \ DOMAIN tokens

VoteStep ==
  /\ res'.route = "vote"
  /\ served' # served
  /\ registering' = registering

(* C24: a vote request that is not answered 201 leaves the votes as they   *)
(* are; a request on an unknown proposal is answered 404, one with a       *)
(* malformed body 400 and one of a user whose holding for the artist of    *)
(* the proposal is not positive 403, and each of the three statuses is     *)
(* given in its own case only.                                             *)
C24_VoteFailureKinds ==
  [][VoteStep =>
       LET req == res'.req
           unknown == req.proposalId \notin DOMAIN proposals
           malformed == ~req.hasWeight
           noHolding ==
             HoldingSum(proposals[req.proposalId].artistId, req.userId) <= 0
       IN /\ res'.status # 201 => votes' = votes
          /\ res'.status = 404 <=> unknown
          /\ ~unknown => (res'.status = 400 <=> malformed)
          /\ (~unknown /\ ~malformed) => (res'.status = 403 <=> noHolding)]_vars

\* sum of amount over all holding rows of the artist
HeldOf(artistId) ==
  LET rows == getArtistTokens(artistId)
  IN SumOver(rows, [t \in rows |-> tokens[t].amount])

(* C28: the holdings of an artist never add up to more than its            *)
(* tokenSupply, and no step changes the tokenSupply of a stored artist.    *)
C28_FixedSupply ==
  [][\A a \in DOMAIN artists' :
       /\ HeldOf(a)' <= artists'[a].tokenSupply
       /\ a \in DOMAIN artists => artists'[a].tokenSupply = artists[a].tokenSupply]_vars

\* the step answers one of the read routes
ReadServed ==
  /\ res'.route \in {"proposals/active", "artists/revenue", "users/portfolio"}
  /\ served' # served
  /\ registering' = registering

(* C23: a step that answers the active listing (with its tallies), the     *)
(* revenue summary or the portfolio leaves every map of the store and      *)
(* every counter unchanged, and so does the passing of time: a proposal    *)
(* whose endDate has passed keeps its stored status.                       *)
C23_ReadsHaveNoEffect ==
  [][(ReadServed \/ now' # now) =>
       UNCHANGED <<users, artists, tokens, proposals, votes, revenues,
                   earnings, currentIds>>]_vars

\* after the end of proposal 1, the listing was read as the last of at
\* least two requests and the store is as it was constructed: proposal 1 is
\* still stored as active
C23_Witness ==
  /\ res.route = "proposals/active"
  /\ served >= 2
  /\ proposals[1].endDate <= now
  /\ proposals = SeedProposals
  /\ proposals[1].status = "active"
  /\ users = SeedUsers /\ artists = SeedArtists /\ tokens = SeedTokens
  /\ votes = SeedVotes /\ revenues = SeedRevenues /\ earnings = NoEarnings

\* the step answers GET /api/artists/:id/revenue with a summary
SummaryServed ==
  /\ res'.route = "artists/revenue"
  /\ res'.status = 200
  /\ served' # served
  /\ registering' = registering

\* <<year, month>> of the calendar month before the one of date d
PriorYearMonth(d) == IF d[2] = 1 THEN <<d[1] - 1, 12>> ELSE <<d[1], d[2] - 1>>

\* revenue events of the artist recognised in the calendar month before the
\* current one
PriorMonthRevenues(artistId) ==
  {r \in getArtistRevenues(artistId) :
     LET d == DateOf(revenues[r].date)
     IN <<d[1], d[2]>> = PriorYearMonth(DateOf(now))}

(* C25: in the revenue summary the values of the monthly mapping add up to *)
(* the total to date, and the last-month total is the sum of the amounts   *)
(* of the revenue events of the artist whose date lies in the calendar     *)
(* month (year and month) before the current one.                          *)
C25_RevenueSummaryByMonth ==
  [][SummaryServed =>
       LET body == res'.req
           monthly == body.monthlyData
           prior == PriorMonthRevenues(body.artistId)
       IN /\ SumOver(DOMAIN monthly, monthly) = body.totalEarnings
          /\ body.lastMonthEarnings =
               SumOver(prior, [r \in prior |-> revenues[r].amount])]_vars

FiniteCounts(p, t) ==
  /\ DOMAIN t = DOMAIN proposals[p].options
  /\ \A k \in DOMAIN t : t[k].kind = "num" /\ t[k].v >= 0

(* C30: in the listing, the counts and the percentages of every proposal   *)
(* have exactly options.length entries, each a finite number >= 0.         *)
C30_TallyShape ==
  [][ListingServed =>
       \A p \in DOMAIN res'.req :
         /\ FiniteCounts(p, res'.req[p].votes.counts)
         /\ FiniteCounts(p, res'.req[p].votes.percentages)]_vars

(* C27 as stated: after any sequence of handleShareChange with values in   *)
(* 0..100, the three shares are numbers >= 0 that sum to 100.              *)
C27_SharesSumTo100 ==
  /\ \A k \in DOMAIN form : form[k].kind = "num" /\ form[k].v >= 0
  /\ form.artistShare.v + form.tokenHolderShare.v + form.treasuryShare.v = 100

(* C27 amended: after any sequence of handleShareChange in which every     *)
(* value is one its slider can give (artist 10..70, token holders 20..70,  *)
(* treasury 5..20), the three shares are numbers >= 0 that sum to 100.     *)
C27_SliderSharesSumTo100 ==
  bySlider =>
    /\ \A k \in DOMAIN form : form[k].kind = "num" /\ form[k].v >= 0
    /\ form.artistShare.v + form.tokenHolderShare.v + form.treasuryShare.v = 100

\* the artist slider was moved from 50 to 70: the 30 that remain are split
\* 24 to 6, as 40 to 10
C27_Witness ==
  /\ bySlider
  /\ form = [artistShare |-> Num(70), tokenHolderShare |-> Num(24),
             treasuryShare |-> Num(6)]

====
